---------------------------- MODULE Spec2Model ----------------------------
(***************************************************************************)
(* Model of the alert dispatch engine, consolidado/src/alerts/             *)
(* alert_manager.py (class AlertManager).                                  *)
(*                                                                         *)
(* The engine runs on one asyncio event loop: code between two awaits is   *)
(* atomic.  Each action below is one such stretch of a coroutine.  Time    *)
(* (datetime.now()) is the variable now, in seconds since construction.    *)
(***************************************************************************)
EXTENDS Integers, Sequences, FiniteSets, TLC

(***************************************************************************)
(* Bounds of the model.                                                    *)
(***************************************************************************)
\* number of create_alert calls made by the producers
MaxAlerts == 3
\* total number of target channels of the alerts the producers create
MaxTargets == 4
\* number of times the clock advances apart from the expiry of a timer
MaxTicks == 1
\* config['alert_workers'] of the modelled configuration
NumWorkers == 2
\* config['max_history_size'] of the modelled configuration
MaxHistorySize == 2
\* number of start() and stop() calls the lifecycle model makes
MaxLifeCalls == 4

(***************************************************************************)
(* Program constants.                                                      *)
(***************************************************************************)
\* retry cap of _process_alert: alert.retry_count < 3
MaxRetries == 3
\* timedelta(hours=1) and timedelta(minutes=1) of _check_rate_limit
HourSeconds == 3600
MinuteSeconds == 60
\* config.get('duplicate_window_minutes', 5), in seconds
DuplicateWindow == 300

\* Python's None for an absent limit; configured limits are naturals.
None == 0 - 1

\* the amounts by which the clock advances in one step
Jumps == {MinuteSeconds, HourSeconds}

(***************************************************************************)
(* The configuration the engine is constructed with.                       *)
(***************************************************************************)
\* config['channels'], in dict order
ChannelsConfig ==
    << [name |-> "telegram", type |-> "telegram", enabled |-> TRUE],
       [name |-> "email",    type |-> "email",    enabled |-> TRUE],
       [name |-> "discord",  type |-> "discord",  enabled |-> TRUE],
       [name |-> "sms",      type |-> "sms",      enabled |-> TRUE],
       [name |-> "slack",    type |-> "slack",    enabled |-> TRUE],
       [name |-> "pager",    type |-> "sms",      enabled |-> FALSE] >>

\* channel_map of _create_channel: the known channel types
ChannelTypes == {"email", "telegram", "discord", "sms"}

\* self.channels after _init_channels, as the list of its keys in dict order:
\* the enabled entries whose type _create_channel knows
Channels ==
    LET kept == SelectSeq(ChannelsConfig,
                          LAMBDA c : c.enabled /\ c.type \in ChannelTypes)
    IN  [i \in 1..Len(kept) |-> kept[i].name]

\* `name in self.channels`
IsRegistered(name) == \E i \in 1..Len(Channels) : Channels[i] = name

\* AlertPriority values used by the producers
Priorities == {"medium", "critical"}

\* config['default_channels']: priority -> list; "medium" has no entry
DefaultChannelsConfig ==
    { [priority |-> "critical", channels |-> <<"pager", "discord">>] }

\* config['rate_limits']: channel -> priority -> limits (None: key absent)
RateLimitsConfig ==
    { [channel |-> "telegram", priority |-> "medium",
       max_per_hour |-> 2, max_per_minute |-> 1],
      [channel |-> "email", priority |-> "medium",
       max_per_hour |-> 0, max_per_minute |-> None],
      [channel |-> "discord", priority |-> "critical",
       max_per_hour |-> 1, max_per_minute |-> None] }

\* priority_limit.get('max_per_hour')
MaxPerHour(ch, prio) ==
    IF \E r \in RateLimitsConfig : r.channel = ch /\ r.priority = prio
    THEN (CHOOSE r \in RateLimitsConfig :
              r.channel = ch /\ r.priority = prio).max_per_hour
    ELSE None

\* priority_limit.get('max_per_minute')
MaxPerMinute(ch, prio) ==
    IF \E r \in RateLimitsConfig : r.channel = ch /\ r.priority = prio
    THEN (CHOOSE r \in RateLimitsConfig :
              r.channel = ch /\ r.priority = prio).max_per_minute
    ELSE None

\* Python truthiness of a limit: `not x` holds for None and for 0
Falsy(x) == x = None \/ x = 0

(***************************************************************************)
(* The create_alert calls of the producers.  NoList is channels=None.      *)
(* The fields of an Alert that no modelled handler reads (id, timestamp,   *)
(* metadata) are left out.                                                 *)
(***************************************************************************)
NoList == << "None" >>

Request(title, message, symbol, priority, channels) ==
    [title |-> title, message |-> message, symbol |-> symbol,
     priority |-> priority, channels |-> channels]

Requests ==
    { Request("Price Spike", "BTC +5%", "BTCUSDT", "critical",
              <<"telegram", "email">>),
      Request("Price Spike", "BTC +5%", "BTCUSDT", "critical",
              <<"telegram">>),
      Request("Margin Call", "now", "BTCUSDT", "critical",
              <<"telegram", "email", "discord", "sms">>),
      Request("Margin Call", "now", "BTCUSDT", "critical", NoList),
      Request("Price Spike", "BTC +5%", "BTCUSDT", "medium",
              <<"telegram">>),
      Request("Drawdown", "Limit_hit", "ETHUSDT", "medium",
              <<"telegram">>),
      Request("Drawdown_Limit", "hit", "ETHUSDT", "medium", NoList),
      Request("Drawdown_Limit", "hit", "ETHUSDT", "medium", <<"sms">>),
      Request("Margin Call", "now", "BTCUSDT", "medium",
              <<"discord", "telegram">>),
      Request("Price Spike", "BTC +5%", "BTCUSDT", "medium",
              <<"slack", "pager">>),
      Request("Margin Call", "now", "BTCUSDT", "medium", << >>) }

Workers == 1..NumWorkers

VARIABLES
    now,                  \* datetime.now(), seconds
    ticks,                \* number of clock advances so far
    workers_running,      \* self.workers_running
    alerts,               \* the Alert objects created so far, by identity
    alert_queue,          \* self.alert_queue: Alert references, FIFO
    alert_history,        \* self.alert_history: Alert references
    sent_alerts_tracker,  \* self.sent_alerts_tracker: key -> timestamps
    recent_alerts,        \* self.recent_alerts: set of alert hashes
    worker,               \* per worker task: position, held alert, ...
    calls,                \* number of create_alert calls so far
    last_create,          \* the last create_alert call and its result
    sendLog,              \* per alert: the channel sends started, in order
    passes,               \* per alert: the verdicts of its passes, in order
    requeues,             \* per alert: the puts made by the retry path
    stop_task,            \* the stop() call: its position, the cleanups made
    alert_ids,            \* per alert: the id create_alert returned
    trig,                 \* the check_triggers call: position, checks made
    stats,                \* what the last get_alert_stats call returned
    tasks,                \* the worker tasks created so far, by identity
    worker_tasks,         \* self.worker_tasks: task references
    lifecalls             \* the start() and stop() calls made, in order

vars == << now, ticks, workers_running, alerts, alert_queue, alert_history,
           sent_alerts_tracker, recent_alerts, worker, calls, last_create,
           sendLog, passes, requeues, stop_task, alert_ids, trig, stats,
           tasks, worker_tasks, lifecalls >>


(***************************************************************************)
(* Pure parts of the handlers.                                             *)
(***************************************************************************)
\* mutant of ResolveChannels: config['default_channels'] is not read
ResolveChannels_NoDefaults(req) ==
    IF req.channels # NoList THEN req.channels ELSE Channels

\* create_alert: `channels` when given, else the default list of the
\* priority, else list(self.channels.keys())
ResolveChannels(req) ==
    IF req.channels # NoList THEN req.channels
    ELSE IF \E d \in DefaultChannelsConfig : d.priority = req.priority
         THEN (CHOOSE d \in DefaultChannelsConfig :
                   d.priority = req.priority).channels
         ELSE Channels

\* mutant of AvailableChannels: the resolved channels are not filtered
AvailableChannels_NoFilter(chs) == chs

\* create_alert: [ch for ch in channels if ch in self.channels]
AvailableChannels(chs) == SelectSeq(chs, IsRegistered)

\* create_alert: `if not available_channels`
NoneAvailable(available) == available = << >>

\* _is_duplicate: f"{alert.symbol}_{alert.title}_{alert.message}"
AlertHash(a) == a.symbol \o "_" \o a.title \o "_" \o a.message

\* mutant of RecentToKeep: the rebuilt set is empty, every hash is evicted
RecentToKeep_Nothing(recent, t) == {}

\* _is_duplicate: the loop that rebuilds recent_alerts keeps every hash
RecentToKeep(recent, t) == recent

\* mutant of IsDuplicate: the hash of an admitted alert is not recorded
IsDuplicate_NoRecord(a, recent, t) ==
    [dup |-> AlertHash(a) \in recent, recent |-> recent]

\* _is_duplicate: the result and the new self.recent_alerts
IsDuplicate(a, recent, t) ==
    LET kept == RecentToKeep(recent, t)
    IN  IF AlertHash(a) \in kept
        THEN [dup |-> TRUE, recent |-> kept]
        ELSE [dup |-> FALSE, recent |-> kept \cup {AlertHash(a)}]

\* f"{channel_name}_{alert.priority.value}"
TrackerKey(ch, prio) == ch \o "_" \o prio

TrackerKeys ==
    { TrackerKey(ChannelsConfig[i].name, p) :
          i \in 1..Len(ChannelsConfig), p \in Priorities }

\* [ts for ts in tracker if ts > bound]
After(tracker, bound) == SelectSeq(tracker, LAMBDA ts : ts > bound)

\* _check_rate_limit, one channel: does the pruned tracker meet a limit
LimitReached(pruned, mh, mm, t) ==
    \/ (~Falsy(mh) /\ Len(pruned) >= mh)
    \/ (~Falsy(mm) /\ Len(After(pruned, t - MinuteSeconds)) >= mm)

\* _check_rate_limit from channel i on: the result and the tracker as the
\* loop leaves it (a missing key reads as the empty list it is created as)
RECURSIVE CheckRateLimit(_, _, _, _, _)
CheckRateLimit(chs, i, prio, tracker, t) ==
    IF i > Len(chs) THEN [ok |-> TRUE, tracker |-> tracker]
    ELSE LET mh == MaxPerHour(chs[i], prio)
             mm == MaxPerMinute(chs[i], prio)
         IN  IF Falsy(mh) /\ Falsy(mm)
             THEN CheckRateLimit(chs, i + 1, prio, tracker, t)
             ELSE LET key == TrackerKey(chs[i], prio)
                      pruned == After(tracker[key], t - HourSeconds)
                      tr == [tracker EXCEPT ![key] = pruned]
                  IN  IF LimitReached(pruned, mh, mm, t)
                      THEN [ok |-> FALSE, tracker |-> tr]
                      ELSE CheckRateLimit(chs, i + 1, prio, tr, t)

\* _track_sent_alert from channel i on: one timestamp per target channel
RECURSIVE TrackSentAlert(_, _, _, _, _)
TrackSentAlert(chs, i, prio, tracker, t) ==
    IF i > Len(chs) THEN tracker
    ELSE TrackSentAlert(chs, i + 1, prio,
             [tracker EXCEPT ![TrackerKey(chs[i], prio)] = Append(@, t)], t)

\* mutant of CleanupHistory: the history is never cut
CleanupHistory_NoTrim(h) == h

\* mutant of CleanupHistory: the slice keeps the first records, not the last
CleanupHistory_KeepOldest(h) ==
    IF Len(h) > MaxHistorySize THEN SubSeq(h, 1, MaxHistorySize) ELSE h

\* _cleanup_history: keep the last max_history_size records
CleanupHistory(h) ==
    IF Len(h) > MaxHistorySize
    THEN SubSeq(h, Len(h) - MaxHistorySize + 1, Len(h))
    ELSE h

\* mutant of RetryAllowed: the cap on retry_count is not checked
RetryAllowed_NoCap(a) == a.priority = "critical"

\* mutant of RetryAllowed: the priority is not tested
RetryAllowed_AnyPriority(a) == a.retry_count < MaxRetries

\* _process_alert: the retry condition of a failed send
RetryAllowed(a) == a.priority = "critical" /\ a.retry_count < MaxRetries

\* mutant of BackoffDelay: the delay grows linearly
BackoffDelay_Linear(rc) == 2 * rc

\* _process_alert: 2 ** alert.retry_count
BackoffDelay(rc) == 2 ^ rc

\* the number of target channels of the alerts from index i on
RECURSIVE Targets(_, _)
Targets(als, i) ==
    IF i > Len(als) THEN 0 ELSE Len(als[i].channels) + Targets(als, i + 1)

\* no stop() call has been made
NotStopping == [pc |-> "none", cleaned |-> << >>]

\* no check_triggers call is in progress
NoPass == [pc |-> "none", idx |-> 0, checked |-> << >>]

\* mutant of Idle: the worker task leaves its loop instead of going back to
\* the queue
Idle_LeavesLoop ==
    [pc |-> "done", alert |-> 0, idx |-> 0, entry |-> 0, wake |-> 0]

\* a worker at the top of its loop, awaiting queue.get()
Idle == [pc |-> "idle", alert |-> 0, idx |-> 0, entry |-> 0, wake |-> 0]

(***************************************************************************)
(* Initial state: the engine after __init__, before start().               *)
(***************************************************************************)
Init ==
    /\ now = 0
    /\ ticks = 0
    /\ workers_running = FALSE
    /\ alerts = << >>
    /\ alert_queue = << >>
    /\ alert_history = << >>
    /\ sent_alerts_tracker = [k \in TrackerKeys |-> << >>]
    /\ recent_alerts = {}
    /\ worker = [w \in Workers |-> [pc |-> "none", alert |-> 0, idx |-> 0,
                                    entry |-> 0, wake |-> 0]]
    /\ calls = 0
    /\ last_create = << >>
    /\ sendLog = << >>
    /\ passes = << >>
    /\ requeues = << >>
    /\ stop_task = NotStopping
    /\ alert_ids = << >>
    /\ trig = NoPass
    /\ stats = << >>
    /\ tasks = << >>
    /\ worker_tasks = << >>
    /\ lifecalls = << >>

(***************************************************************************)
(* The clock: it advances by a jump, or to the expiry of the earliest      *)
(* pending asyncio.sleep (see BackoffElapsed).                             *)
(***************************************************************************)
Tick ==
    /\ ticks < MaxTicks
    /\ \E d \in Jumps : now' = now + d
    /\ ticks' = ticks + 1
    /\ UNCHANGED << stop_task, alert_ids, trig, stats,
                    tasks, worker_tasks, lifecalls >>
    /\ UNCHANGED << workers_running, alerts, alert_queue, alert_history,
                    sent_alerts_tracker, recent_alerts, worker, calls,
                    last_create, sendLog, passes, requeues >>

(***************************************************************************)
(* start(): sets the flag and creates the worker tasks.                    *)
(***************************************************************************)
Start ==
    /\ ~workers_running
    /\ workers_running' = TRUE
    /\ worker' = [w \in Workers |-> Idle]
    /\ UNCHANGED << stop_task, alert_ids, trig, stats,
                    tasks, worker_tasks, lifecalls >>
    /\ UNCHANGED << now, ticks, alerts, alert_queue, alert_history,
                    sent_alerts_tracker, recent_alerts, calls, last_create,
                    sendLog, passes, requeues >>

\* asyncio.Queue(): maxsize 0, the queue has no bound
QueueMaxSize == 0

\* mutant of QueueFull: a queue of one slot
QueueFull_OneSlot(q) == Len(q) >= 1

\* Queue.full(): put() suspends the caller while it holds
QueueFull(q) == QueueMaxSize > 0 /\ Len(q) >= QueueMaxSize

(***************************************************************************)
(* create_alert(title, message, symbol, priority, channels).               *)
(* The producers stop at MaxAlerts calls and MaxTargets target channels.   *)
(* The result is the index of the new Alert, or None.                      *)
(***************************************************************************)
Create(req) ==
    LET available == AvailableChannels(ResolveChannels(req))
        alert == [title |-> req.title, message |-> req.message,
                  priority |-> req.priority, symbol |-> req.symbol,
                  channels |-> available,
                  sent |-> FALSE, retry_count |-> 0]
    IN  /\ Targets(alerts, 1) + Len(available) <= MaxTargets
        /\ IF NoneAvailable(available)
           THEN /\ last_create' = << [request |-> req, result |-> None] >>
                /\ UNCHANGED << alerts, alert_queue, sendLog, passes,
                                requeues >>
           ELSE /\ ~QueueFull(alert_queue)
                /\ alerts' = Append(alerts, alert)
                /\ alert_queue' = Append(alert_queue, Len(alerts) + 1)
                /\ sendLog' = Append(sendLog, << >>)
                /\ passes' = Append(passes, << >>)
                /\ requeues' = Append(requeues, 0)
                /\ last_create' = << [request |-> req,
                                      result |-> Len(alerts) + 1] >>

CreateAlert ==
    /\ calls < MaxAlerts
    /\ \E req \in Requests : Create(req)
    /\ calls' = calls + 1
    /\ UNCHANGED << stop_task, alert_ids, trig, stats,
                    tasks, worker_tasks, lifecalls >>
    /\ UNCHANGED << now, ticks, workers_running, alert_history,
                    sent_alerts_tracker, recent_alerts, worker >>

\* mutant of Dequeue: queue.get() returns the newest alert of the queue
Dequeue_TakesLast(w) ==
    /\ workers_running
    /\ worker[w].pc = "idle"
    /\ alert_queue # << >>
    /\ worker' = [worker EXCEPT ![w] = [pc |-> "got",
                                         alert |-> alert_queue[Len(alert_queue)],
                                         idx |-> 0, entry |-> 0,
                                         wake |-> 0]]
    /\ alert_queue' = SubSeq(alert_queue, 1, Len(alert_queue) - 1)
    /\ UNCHANGED << stop_task, alert_ids, trig, stats,
                    tasks, worker_tasks, lifecalls >>
    /\ UNCHANGED << now, ticks, workers_running, alerts, alert_history,
                    sent_alerts_tracker, recent_alerts, calls, last_create,
                    sendLog, passes, requeues >>

\* mutant of Dequeue: the worker takes an alert without the loop test on
\* workers_running
Dequeue_IgnoresFlag(w) ==
    /\ worker[w].pc = "idle"
    /\ alert_queue # << >>
    /\ worker' = [worker EXCEPT ![w] = [pc |-> "got",
                                         alert |-> Head(alert_queue),
                                         idx |-> 0, entry |-> 0,
                                         wake |-> 0]]
    /\ alert_queue' = Tail(alert_queue)
    /\ UNCHANGED << stop_task, alert_ids, trig, stats,
                    tasks, worker_tasks, lifecalls >>
    /\ UNCHANGED << now, ticks, workers_running, alerts, alert_history,
                    sent_alerts_tracker, recent_alerts, calls, last_create,
                    sendLog, passes, requeues >>

(***************************************************************************)
(* _alert_worker: the queue.get() of the loop returns an alert.            *)
(***************************************************************************)
Dequeue(w) ==
    /\ workers_running
    /\ worker[w].pc = "idle"
    /\ alert_queue # << >>
    /\ worker' = [worker EXCEPT ![w] = [pc |-> "got",
                                         alert |-> Head(alert_queue),
                                         idx |-> 0, entry |-> 0,
                                         wake |-> 0]]
    /\ alert_queue' = Tail(alert_queue)
    /\ UNCHANGED << stop_task, alert_ids, trig, stats,
                    tasks, worker_tasks, lifecalls >>
    /\ UNCHANGED << now, ticks, workers_running, alerts, alert_history,
                    sent_alerts_tracker, recent_alerts, calls, last_create,
                    sendLog, passes, requeues >>

\* mutant of Proceed: a failed send ends the pass, the remaining send tasks
\* are not awaited
Proceed_AbortOnFailure(w, als, q, log, t) ==
    LET a == worker[w].alert
        i == worker[w].idx
        chs == als[a].channels
        e == worker[w].entry
        failed == e > 0 /\ log[a][e].result = "failed"
    IN  IF i < Len(chs) /\ ~failed
        THEN /\ alerts' = als
             /\ alert_queue' = q
             /\ sendLog' = [log EXCEPT ![a] =
                               Append(@, [channel |-> chs[i + 1],
                                          result |-> "pending"])]
             /\ worker' = [worker EXCEPT ![w] = [pc |-> "send", alert |-> a,
                                                 idx |-> i + 1,
                                                 entry |-> Len(log[a]) + 1,
                                                 wake |-> 0]]
             /\ UNCHANGED << sent_alerts_tracker, alert_history >>
        ELSE /\ alerts' = [als EXCEPT ![a].sent = TRUE]
             /\ alert_queue' = q
             /\ sendLog' = log
             /\ sent_alerts_tracker' =
                    TrackSentAlert(chs, 1, als[a].priority,
                                   sent_alerts_tracker, t)
             /\ alert_history' = CleanupHistory(Append(alert_history, a))
             /\ worker' = [worker EXCEPT ![w] = Idle]

(***************************************************************************)
(* _process_alert, after the send on channel idx is over (or, with idx 0,  *)
(* after admission): await the next send task, or with none left mark the  *)
(* alert sent, track it, append it to the history, clean the history up    *)
(* and go back to the queue.  als, q, log: the alerts, the queue and the   *)
(* send log as the step has changed them so far, and the time.             *)
(***************************************************************************)
Proceed(w, als, q, log, t) ==
    LET a == worker[w].alert
        i == worker[w].idx
        chs == als[a].channels
    IN  IF i < Len(chs)
        THEN /\ alerts' = als
             /\ alert_queue' = q
             /\ sendLog' = [log EXCEPT ![a] =
                               Append(@, [channel |-> chs[i + 1],
                                          result |-> "pending"])]
             /\ worker' = [worker EXCEPT ![w] = [pc |-> "send", alert |-> a,
                                                 idx |-> i + 1,
                                                 entry |-> Len(log[a]) + 1,
                                                 wake |-> 0]]
             /\ UNCHANGED << sent_alerts_tracker, alert_history >>
        ELSE /\ alerts' = [als EXCEPT ![a].sent = TRUE]
             /\ alert_queue' = q
             /\ sendLog' = log
             /\ sent_alerts_tracker' =
                    TrackSentAlert(chs, 1, als[a].priority,
                                   sent_alerts_tracker, t)
             /\ alert_history' = CleanupHistory(Append(alert_history, a))
             /\ worker' = [worker EXCEPT ![w] = Idle]

\* mutant of ProcessAlert: the duplicate check runs, and records the key,
\* before the rate-limit check rejects the alert
ProcessAlert_LimitedRecordsKey(w) ==
    /\ worker[w].pc = "got"
    /\ LET a == worker[w].alert
           rl == CheckRateLimit(alerts[a].channels, 1, alerts[a].priority,
                                sent_alerts_tracker, now)
           dd == IsDuplicate(alerts[a], recent_alerts, now)
       IN  IF ~rl.ok
           THEN /\ sent_alerts_tracker' = rl.tracker
                /\ passes' = [passes EXCEPT ![a] = Append(@, "rate_limited")]
                /\ worker' = [worker EXCEPT ![w] = Idle]
                /\ recent_alerts' = dd.recent
                /\ UNCHANGED << alerts, alert_queue, alert_history,
                                sendLog >>
           ELSE IF dd.dup
           THEN /\ sent_alerts_tracker' = rl.tracker
                /\ recent_alerts' = dd.recent
                /\ passes' = [passes EXCEPT ![a] = Append(@, "duplicate")]
                /\ worker' = [worker EXCEPT ![w] = Idle]
                /\ UNCHANGED << alerts, alert_queue, alert_history, sendLog >>
           ELSE /\ recent_alerts' = dd.recent
                /\ passes' = [passes EXCEPT ![a] = Append(@, "admitted")]
                /\ sent_alerts_tracker' = rl.tracker
                /\ alerts' = alerts
                /\ alert_queue' = alert_queue
                /\ alert_history' = alert_history
                /\ sendLog' = [sendLog EXCEPT ![a] =
                       Append(@, [channel |-> alerts[a].channels[1],
                                  result |-> "pending"])]
                /\ worker' = [worker EXCEPT ![w] = [pc |-> "send",
                                  alert |-> a, idx |-> 1,
                                  entry |-> Len(sendLog[a]) + 1,
                                  wake |-> 0]]
    /\ UNCHANGED << stop_task, alert_ids, trig, stats,
                    tasks, worker_tasks, lifecalls >>
    /\ UNCHANGED << now, ticks, workers_running, calls, last_create,
                    requeues >>

\* mutant of ProcessAlert: the first send is started although the duplicate
\* check has rejected the alert
ProcessAlert_SendsDuplicate(w) ==
    /\ worker[w].pc = "got"
    /\ LET a == worker[w].alert
           rl == CheckRateLimit(alerts[a].channels, 1, alerts[a].priority,
                                sent_alerts_tracker, now)
           dd == IsDuplicate(alerts[a], recent_alerts, now)
       IN  IF ~rl.ok
           THEN /\ sent_alerts_tracker' = rl.tracker
                /\ passes' = [passes EXCEPT ![a] = Append(@, "rate_limited")]
                /\ worker' = [worker EXCEPT ![w] = Idle]
                /\ UNCHANGED << alerts, alert_queue, alert_history,
                                recent_alerts, sendLog >>
           ELSE /\ recent_alerts' = dd.recent
                /\ passes' = [passes EXCEPT ![a] =
                                  Append(@, IF dd.dup THEN "duplicate"
                                                      ELSE "admitted")]
                /\ sent_alerts_tracker' = rl.tracker
                /\ alerts' = alerts
                /\ alert_queue' = alert_queue
                /\ alert_history' = alert_history
                /\ sendLog' = [sendLog EXCEPT ![a] =
                       Append(@, [channel |-> alerts[a].channels[1],
                                  result |-> "pending"])]
                /\ worker' = [worker EXCEPT ![w] = [pc |-> "send",
                                  alert |-> a, idx |-> 1,
                                  entry |-> Len(sendLog[a]) + 1,
                                  wake |-> 0]]
    /\ UNCHANGED << stop_task, alert_ids, trig, stats,
                    tasks, worker_tasks, lifecalls >>
    /\ UNCHANGED << now, ticks, workers_running, calls, last_create,
                    requeues >>

(***************************************************************************)
(* _process_alert up to its first await: the rate-limit check, the         *)
(* duplicate check, and the start of the first send.                       *)
(***************************************************************************)
ProcessAlert(w) ==
    /\ worker[w].pc = "got"
    /\ LET a == worker[w].alert
           rl == CheckRateLimit(alerts[a].channels, 1, alerts[a].priority,
                                sent_alerts_tracker, now)
           dd == IsDuplicate(alerts[a], recent_alerts, now)
       IN  IF ~rl.ok
           THEN /\ sent_alerts_tracker' = rl.tracker
                /\ passes' = [passes EXCEPT ![a] = Append(@, "rate_limited")]
                /\ worker' = [worker EXCEPT ![w] = Idle]
                /\ UNCHANGED << alerts, alert_queue, alert_history,
                                recent_alerts, sendLog >>
           ELSE IF dd.dup
           THEN /\ sent_alerts_tracker' = rl.tracker
                /\ recent_alerts' = dd.recent
                /\ passes' = [passes EXCEPT ![a] = Append(@, "duplicate")]
                /\ worker' = [worker EXCEPT ![w] = Idle]
                /\ UNCHANGED << alerts, alert_queue, alert_history, sendLog >>
           ELSE /\ recent_alerts' = dd.recent
                /\ passes' = [passes EXCEPT ![a] = Append(@, "admitted")]
                /\ sent_alerts_tracker' = rl.tracker
                /\ alerts' = alerts
                /\ alert_queue' = alert_queue
                /\ alert_history' = alert_history
                /\ sendLog' = [sendLog EXCEPT ![a] =
                       Append(@, [channel |-> alerts[a].channels[1],
                                  result |-> "pending"])]
                /\ worker' = [worker EXCEPT ![w] = [pc |-> "send",
                                  alert |-> a, idx |-> 1,
                                  entry |-> Len(sendLog[a]) + 1,
                                  wake |-> 0]]
    /\ UNCHANGED << stop_task, alert_ids, trig, stats,
                    tasks, worker_tasks, lifecalls >>
    /\ UNCHANGED << now, ticks, workers_running, calls, last_create,
                    requeues >>


(***************************************************************************)
(* _process_alert: the awaited send on the current channel returns.        *)
(***************************************************************************)
SendSucceeds(w) ==
    /\ worker[w].pc = "send"
    /\ LET a == worker[w].alert
           log == [sendLog EXCEPT ![a][worker[w].entry].result = "delivered"]
       IN  Proceed(w, alerts, alert_queue, log, now)
    /\ UNCHANGED << stop_task, alert_ids, trig, stats,
                    tasks, worker_tasks, lifecalls >>
    /\ UNCHANGED << now, ticks, workers_running, recent_alerts, calls,
                    last_create, passes, requeues >>

(***************************************************************************)
(* _process_alert: the awaited send raises.  A CRITICAL alert under the    *)
(* retry cap has its retry_count incremented and the worker sleeps         *)
(* 2 ** retry_count seconds; any other alert goes on to its next channel.  *)
(***************************************************************************)
SendFails(w) ==
    /\ worker[w].pc = "send"
    /\ LET a == worker[w].alert
           log == [sendLog EXCEPT ![a][worker[w].entry].result = "failed"]
       IN  IF RetryAllowed(alerts[a])
           THEN /\ alerts' = [alerts EXCEPT ![a].retry_count = @ + 1]
                /\ sendLog' = log
                /\ worker' = [worker EXCEPT ![w].pc = "sleep",
                                  ![w].wake = now +
                                      BackoffDelay(alerts[a].retry_count + 1)]
                /\ UNCHANGED << alert_queue, alert_history,
                                sent_alerts_tracker >>
           ELSE Proceed(w, alerts, alert_queue, log, now)
    /\ UNCHANGED << stop_task, alert_ids, trig, stats,
                    tasks, worker_tasks, lifecalls >>
    /\ UNCHANGED << now, ticks, workers_running, recent_alerts, calls,
                    last_create, passes, requeues >>

(***************************************************************************)
(* _process_alert: the backoff sleep is over (the event loop runs the      *)
(* earliest timer first, the clock being at its deadline or later); the    *)
(* alert is put back on the queue and the loop over the send tasks goes on.*)
(***************************************************************************)
BackoffElapsed(w) ==
    /\ worker[w].pc = "sleep"
    /\ \A v \in Workers : worker[v].pc = "sleep" => worker[v].wake >= worker[w].wake
    /\ now' = IF now < worker[w].wake THEN worker[w].wake ELSE now
    /\ Proceed(w, alerts, Append(alert_queue, worker[w].alert), sendLog,
               now')
    /\ requeues' = [requeues EXCEPT ![worker[w].alert] = @ + 1]
    /\ UNCHANGED << stop_task, alert_ids, trig, stats,
                    tasks, worker_tasks, lifecalls >>
    /\ UNCHANGED << ticks, workers_running, recent_alerts, calls,
                    last_create, passes >>

Next ==
    \/ Tick
    \/ Start
    \/ CreateAlert
    \/ \E w \in Workers : Dequeue(w)
    \/ \E w \in Workers : ProcessAlert(w)
    \/ \E w \in Workers : SendSucceeds(w)
    \/ \E w \in Workers : SendFails(w)
    \/ \E w \in Workers : BackoffElapsed(w)

Spec == Init /\ [][Next]_vars

\* mutant of Stats: the total counts every alert ever recorded, the records
\* that the history has dropped included
Stats_CountsDropped ==
    [total_alerts_sent |->
         Cardinality({ a \in 1..Len(alerts) : alerts[a].sent }),
     pending_alerts |-> Len(alert_queue),
     active_channels |-> Len(Channels),
     workers_running |-> workers_running]

(***************************************************************************)
(* get_alert_stats: the counters the claims read.                          *)
(***************************************************************************)
Stats ==
    [total_alerts_sent |-> Len(alert_history),
     pending_alerts |-> Len(alert_queue),
     active_channels |-> Len(Channels),
     workers_running |-> workers_running]

\* a caller reads get_alert_stats(); the method has no await and no
\* assignment to the engine
GetAlertStats ==
    /\ stats' = << Stats >>
    /\ UNCHANGED << now, ticks, workers_running, alerts, alert_queue,
                    alert_history, sent_alerts_tracker, recent_alerts, worker,
                    calls, last_create, sendLog, passes, requeues, stop_task,
                    alert_ids, trig, tasks, worker_tasks, lifecalls >>

\* the engine with a caller of get_alert_stats, without clock jumps and
\* with the producers of StatsRequests
StatsRequests ==
    { Request("Price Spike", "BTC +5%", "BTCUSDT", "critical",
              <<"telegram">>),
      Request("Drawdown", "Limit_hit", "ETHUSDT", "medium",
              <<"telegram">>),
      Request("Margin Call", "now", "BTCUSDT", "critical",
              <<"email">>) }

CreateAlertStats ==
    /\ calls < MaxAlerts
    /\ \E req \in StatsRequests : Create(req)
    /\ calls' = calls + 1
    /\ UNCHANGED << now, ticks, workers_running, alert_history,
                    sent_alerts_tracker, recent_alerts, worker, stop_task,
                    alert_ids, trig, stats,
                    tasks, worker_tasks, lifecalls >>

NextStats ==
    \/ Start
    \/ CreateAlertStats
    \/ \E w \in Workers : Dequeue(w)
    \/ \E w \in Workers : ProcessAlert(w)
    \/ \E w \in Workers : SendSucceeds(w)
    \/ \E w \in Workers : SendFails(w)
    \/ \E w \in Workers : BackoffElapsed(w)
    \/ GetAlertStats

SpecStats == Init /\ [][NextStats]_vars

(***************************************************************************)
(* Vocabulary of the claims.                                               *)
(***************************************************************************)
AlertIds == 1..Len(alerts)

\* a worker has dequeued alert a and has not finished its pass
Holders(a) ==
    { w \in Workers : worker[w].pc \in {"got", "send", "sleep"}
                      /\ worker[w].alert = a }

InQueue(a) == \E i \in 1..Len(alert_queue) : alert_queue[i] = a

InHistory(a) == \E i \in 1..Len(alert_history) : alert_history[i] = a

\* alert a has been processed and nothing is left to happen to it
Terminal(a) == passes[a] # << >> /\ Holders(a) = {} /\ ~InQueue(a)

\* the outcomes of the sends of alert a on channel ch, in order
ResultsOn(a, ch) ==
    LET on == SelectSeq(sendLog[a], LAMBDA e : e.channel = ch)
    IN  [i \in 1..Len(on) |-> on[i].result]

IsPrefix(s, t) == Len(s) <= Len(t) /\ \A i \in 1..Len(s) : s[i] = t[i]

\* alert a was admitted by its first pass and no pass of it was rate limited
Admitted(a) ==
    /\ passes[a] # << >>
    /\ passes[a][1] = "admitted"
    /\ \A i \in 1..Len(passes[a]) : passes[a][i] # "rate_limited"

SameTriple(a, b) ==
    /\ alerts[a].symbol = alerts[b].symbol
    /\ alerts[a].title = alerts[b].title
    /\ alerts[a].message = alerts[b].message

\* a CRITICAL alert with exactly one target channel
CriticalSingle(a) ==
    alerts[a].priority = "critical" /\ Len(alerts[a].channels) = 1

(***************************************************************************)
(* C1.  A CRITICAL alert with one target channel whose send fails twice    *)
(* and then succeeds gets exactly 3 sends and ends delivered: whenever     *)
(* such an alert is terminal and the outcomes so far are those of a        *)
(* channel that fails twice and then succeeds, the outcomes are            *)
(* failed, failed, delivered.                                              *)
(***************************************************************************)
C1_RetryUntilDelivered ==
    \A a \in AlertIds :
        ( /\ CriticalSingle(a)
          /\ Admitted(a)
          /\ Terminal(a)
          /\ IsPrefix(ResultsOn(a, alerts[a].channels[1]),
                      <<"failed", "failed", "delivered">>) )
        => ResultsOn(a, alerts[a].channels[1])
               = <<"failed", "failed", "delivered">>

(***************************************************************************)
(* C2.  A CRITICAL alert with one target channel whose send always fails   *)
(* gets exactly 4 sends (1 + 3 retries) and is then dropped: whenever such *)
(* an alert is terminal and every send so far has failed, there have been  *)
(* 4 sends.                                                                *)
(***************************************************************************)
C2_RetryExhaustion ==
    \A a \in AlertIds :
        ( /\ CriticalSingle(a)
          /\ Admitted(a)
          /\ Terminal(a)
          /\ \A i \in 1..Len(sendLog[a]) : sendLog[a][i].result = "failed" )
        => Len(sendLog[a]) = 4

(***************************************************************************)
(* C3.  For every alert retry_count is in 0..3 and the retry path has put  *)
(* it back on the queue at most 3 times.                                   *)
(***************************************************************************)
C3_RetryBound ==
    \A a \in AlertIds :
        /\ alerts[a].retry_count \in 0..3
        /\ requeues[a] <= 3

\* the cap is met: 3 puts by the retry path, and a 4th failed send
C3_Witness ==
    \E a \in AlertIds :
        /\ requeues[a] = 3
        /\ alerts[a].retry_count = 3
        /\ Len(SelectSeq(sendLog[a], LAMBDA e : e.result = "failed")) = 4

\* this step records the first pass of alert b
FirstPass(b) == passes[b] = << >> /\ passes'[b] # << >>

\* an alert whose first pass was not admitted has that one pass, no send,
\* no history record, and is not marked sent
SuppressedForGood ==
    \A b \in AlertIds :
        (passes[b] # << >> /\ passes[b][1] # "admitted")
        => /\ Len(passes[b]) = 1
           /\ sendLog[b] = << >>
           /\ ~InHistory(b)
           /\ ~alerts[b].sent

(***************************************************************************)
(* C4, as stated.  Of two alerts with the same (symbol, title, message)    *)
(* created within the duplicate window, the one processed second is        *)
(* suppressed: a step that records the first pass of b, within the window  *)
(* of the construction, when an alert a with the same triple has been      *)
(* processed, does not admit b.                                            *)
(***************************************************************************)
C4_SecondSuppressed ==
    [][ \A a, b \in AlertIds :
          ( /\ a # b
            /\ SameTriple(a, b)
            /\ passes[a] # << >>
            /\ FirstPass(b)
            /\ now' < DuplicateWindow )
          => passes'[b][1] # "admitted" ]_vars

(***************************************************************************)
(* C4, amended.  Of two alerts with the same (symbol, title, message)      *)
(* created within the duplicate window, the one processed second is        *)
(* suppressed provided the one processed first passed the rate-limit       *)
(* check; and a suppressed alert is sent to no channel and never appears   *)
(* in the history.                                                         *)
(***************************************************************************)
C4_SecondSuppressedAfterRateCheck ==
    /\ []SuppressedForGood
    /\ [][ \A a, b \in AlertIds :
             ( /\ a # b
               /\ SameTriple(a, b)
               /\ passes[a] # << >>
               /\ passes[a][1] # "rate_limited"
               /\ FirstPass(b)
               /\ now' < DuplicateWindow )
             => passes'[b][1] # "admitted" ]_vars

\* two alerts with the same triple: the first admitted and recorded in the
\* history, the second suppressed as its duplicate within the window
C4_Witness ==
    \E a, b \in AlertIds :
        /\ a # b
        /\ SameTriple(a, b)
        /\ passes[a] # << >>
        /\ passes[a][1] = "admitted"
        /\ InHistory(a)
        /\ passes[b] = << "duplicate" >>
        /\ sendLog[b] = << >>
        /\ ~InHistory(b)
        /\ now < DuplicateWindow

\* every recorded send of alert a lies more than the duplicate window back
LongAgo(a) ==
    \A i \in 1..Len(alerts[a].channels) :
        LET tr == sent_alerts_tracker[TrackerKey(alerts[a].channels[i],
                                                 alerts[a].priority)]
        IN  \A j \in 1..Len(tr) : tr[j] + DuplicateWindow < now

(***************************************************************************)
(* C5.  A DedupKey is evicted once it is older than the duplicate window:  *)
(* an alert b is not suppressed as a duplicate when every alert with its   *)
(* (symbol, title, message) processed before it is terminal and was sent   *)
(* more than the duplicate window earlier.  (The tracker holds the time    *)
(* at which the pass of an admitted alert ended, which is not before its   *)
(* admission; entries it has dropped are more than an hour old.)           *)
(***************************************************************************)
C5_KeyEvictedAfterWindow ==
    [][ \A b \in AlertIds :
          ( /\ FirstPass(b)
            /\ \A a \in AlertIds \ {b} :
                   (SameTriple(a, b) /\ passes[a] # << >>)
                   => (Terminal(a) /\ LongAgo(a)) )
          => passes'[b][1] # "duplicate" ]_vars

\* the number of sends started on channel c for the alerts of priority p,
\* from alert i on
RECURSIVE SendsTo(_, _, _)
SendsTo(c, p, i) ==
    IF i > Len(alerts) THEN 0
    ELSE (IF alerts[i].priority = p
          THEN Len(SelectSeq(sendLog[i], LAMBDA e : e.channel = c))
          ELSE 0) + SendsTo(c, p, i + 1)

(***************************************************************************)
(* C6.  With max_per_minute = m configured for a channel and a priority,   *)
(* and the workers draining the queue concurrently, the number of sends to *)
(* the channel for alerts of that priority within one minute never exceeds *)
(* m (here: during the first minute after construction).                   *)
(***************************************************************************)
C6_PerMinuteCap ==
    now < MinuteSeconds =>
        \A i \in 1..Len(Channels), p \in Priorities :
            MaxPerMinute(Channels[i], p) # None
            => SendsTo(Channels[i], p, 1) <= MaxPerMinute(Channels[i], p)

(***************************************************************************)
(* C7.  An alert is suppressed in its entirety when one of its target      *)
(* channels has met a configured limit: a pass is admitted (and so starts  *)
(* a send) only if for every target channel the recorded sends of the      *)
(* alert's priority in the trailing hour are below max_per_hour and those  *)
(* in the trailing minute are below max_per_minute, where configured.      *)
(***************************************************************************)
C7_SuppressedEntirely ==
    [][ \A a \in AlertIds :
          passes'[a] = Append(passes[a], "admitted")
          => \A i \in 1..Len(alerts[a].channels) :
                 LET ch == alerts[a].channels[i]
                     tr == sent_alerts_tracker[TrackerKey(ch,
                                                   alerts[a].priority)]
                     mh == MaxPerHour(ch, alerts[a].priority)
                     mm == MaxPerMinute(ch, alerts[a].priority)
                 IN  /\ mh # None => Len(After(tr, now - HourSeconds)) < mh
                     /\ mm # None => Len(After(tr, now - MinuteSeconds)) < mm
      ]_vars

(***************************************************************************)
(* C8.  No alert is held by two workers at once, and an alert that a       *)
(* worker is still processing is not in the dispatch queue.                *)
(***************************************************************************)
C8_SingleOwner ==
    \A a \in AlertIds :
        /\ Cardinality(Holders(a)) <= 1
        /\ Holders(a) # {} => ~InQueue(a)

(***************************************************************************)
(* C9.  The scenario create_alert("Price Spike", "BTC +5%", "BTCUSDT",     *)
(* CRITICAL, ["telegram", "email"]) as the only alert, telegram failing    *)
(* once and then succeeding, email always succeeding: when the run is      *)
(* over, telegram has been sent to twice, email once, both are delivered   *)
(* and the stats show total_alerts_sent = 1.                               *)
(***************************************************************************)
C9_PriceSpikeScenario ==
    ( /\ Len(alerts) = 1
      /\ alerts[1].title = "Price Spike"
      /\ alerts[1].message = "BTC +5%"
      /\ alerts[1].symbol = "BTCUSDT"
      /\ alerts[1].priority = "critical"
      /\ alerts[1].channels = <<"telegram", "email">>
      /\ Admitted(1)
      /\ Terminal(1)
      /\ IsPrefix(ResultsOn(1, "telegram"), <<"failed", "delivered">>)
      /\ \A i \in 1..Len(ResultsOn(1, "email")) :
             ResultsOn(1, "email")[i] = "delivered" )
    => /\ ResultsOn(1, "telegram") = <<"failed", "delivered">>
       /\ ResultsOn(1, "email") = <<"delivered">>
       /\ Stats.total_alerts_sent = 1

\* none of the resolved channels of the request is a registered channel
NoneRegistered(req) ==
    \A i \in 1..Len(ResolveChannels(req)) :
        ~IsRegistered(ResolveChannels(req)[i])

(***************************************************************************)
(* C10.  create_alert returns None and enqueues nothing when none of the   *)
(* resolved channels is a registered channel (and returns the alert        *)
(* otherwise); every alert in the dispatch queue has a non-empty list of   *)
(* target channels.                                                        *)
(***************************************************************************)
C10_NoChannelsNoEnqueue ==
    /\ [](\A i \in 1..Len(alert_queue) :
              alerts[alert_queue[i]].channels # << >>)
    /\ [][ calls' = calls + 1 =>
             IF NoneRegistered(last_create'[1].request)
             THEN /\ last_create'[1].result = None
                  /\ alert_queue' = alert_queue
                  /\ alerts' = alerts
             ELSE /\ last_create'[1].result = Len(alerts')
                  /\ alert_queue' = Append(alert_queue, Len(alerts'))
         ]_vars

\* a call whose channels are all unregistered has returned None while an
\* alert created earlier waits in the queue
C10_Witness ==
    /\ last_create # << >>
    /\ last_create[1].request.channels = <<"slack", "pager">>
    /\ last_create[1].result = None
    /\ alert_queue # << >>
    /\ Len(alerts) = Len(alert_queue)

(***************************************************************************)
(* The alert id.  create_alert builds it from the second of the clock and  *)
(* hash(title) % 10000.  hash() of a str is salted per process: within one *)
(* run a title has one hash, and HashCodes are the values the titles of    *)
(* the producers may take in a run.  CreateAlert above leaves the id out;  *)
(* CreateAlertWithId is the same call with its id.                         *)
(***************************************************************************)
\* the modulus of the id: hash(title) % 10000
IdModulus == 10000

HashCodes == {7, 4242, 14242}

\* f"alert_{datetime.now().strftime('%Y%m%d_%H%M%S')}_{hash(title) % 10000}"
AlertId(t, h) == << "alert", t, h % IdModulus >>

\* h can be hash(title) in this run: the alerts created with the title so
\* far had this hash, and those with another title another hash (the full
\* hashes of distinct titles are taken to differ)
HashOfTitle(title, h) ==
    \A i \in 1..Len(alerts) : alerts[i].title = title <=> alert_ids[i].hash = h

CreateAlertWithId ==
    /\ calls < MaxAlerts
    /\ \E req \in Requests, h \in HashCodes :
           /\ HashOfTitle(req.title, h)
           /\ Create(req)
           /\ alert_ids' =
                  IF NoneAvailable(AvailableChannels(ResolveChannels(req)))
                  THEN alert_ids
                  ELSE Append(alert_ids, [id |-> AlertId(now, h), hash |-> h])
    /\ calls' = calls + 1
    /\ UNCHANGED << now, ticks, workers_running, alert_history,
                    sent_alerts_tracker, recent_alerts, worker, stop_task,
                    trig, stats,
                    tasks, worker_tasks, lifecalls >>

NextIds ==
    \/ Tick
    \/ CreateAlertWithId

SpecIds == Init /\ [][NextIds]_vars

(***************************************************************************)
(* C11.  Any two create_alert calls with distinct titles that return an id *)
(* return different ids, also within the same second.                      *)
(***************************************************************************)
C11_DistinctIds ==
    \A i, j \in 1..Len(alert_ids) :
        (i # j /\ alerts[i].title # alerts[j].title)
        => alert_ids[i].id # alert_ids[j].id

\* the number of alerts recorded in the history so far (an alert is marked
\* sent in the step that records it)
NumRecorded == Cardinality({ a \in AlertIds : alerts[a].sent })

\* the last n elements of s, all of s when it has fewer
LastOf(s, n) ==
    LET k == IF Len(s) < n THEN Len(s) ELSE n
    IN  [i \in 1..k |-> s[Len(s) - k + i]]

(***************************************************************************)
(* C12.  In every state between two steps of the engine the history holds  *)
(* at most max_history_size records.                                       *)
(***************************************************************************)
C12_HistoryBound == Len(alert_history) <= MaxHistorySize

\* one more alert than the history may hold has been recorded
C12_Witness ==
    /\ NumRecorded = MaxHistorySize + 1
    /\ Len(alert_history) = MaxHistorySize

(***************************************************************************)
(* C13.  After n alerts have been recorded the history holds               *)
(* min(n, max_history_size) records, and every recording leaves the last   *)
(* max_history_size of the former records followed by the new one: the     *)
(* history is the most recently recorded alerts in recording order, the    *)
(* oldest record being the one removed.                                    *)
(***************************************************************************)
C13_HistoryKeepsMostRecent ==
    /\ [](Len(alert_history) = (IF NumRecorded < MaxHistorySize
                                THEN NumRecorded ELSE MaxHistorySize))
    /\ [][ /\ \A a \in AlertIds :
                   (~alerts[a].sent /\ alerts'[a].sent) =>
                       alert_history' =
                           LastOf(Append(alert_history, a), MaxHistorySize)
           /\ (alert_history' # alert_history =>
                  \E a \in AlertIds : ~alerts[a].sent /\ alerts'[a].sent)
         ]_vars

\* the alert recorded first has been removed and the history holds the
\* alerts recorded after it
C13_Witness ==
    /\ Len(alert_history) = MaxHistorySize
    /\ \E a \in AlertIds :
           /\ alerts[a].sent
           /\ ~InHistory(a)
           /\ \A b \in AlertIds \ {a} : alerts[b].sent /\ InHistory(b)

\* some pass of alert a ended at the rate-limit check or the duplicate check
Rejected(a) ==
    \E i \in 1..Len(passes[a]) : passes[a][i] \in {"rate_limited", "duplicate"}

(***************************************************************************)
(* C16.  Once admission has rejected an alert (rate-limited or duplicate,  *)
(* whatever its priority), no later step puts it back on the queue through *)
(* the retry path or records it in the history; create_alert returned its  *)
(* id before the alert was ever processed.                                 *)
(***************************************************************************)
C16_RejectedIsDropped ==
    [][ \A a \in AlertIds :
            Rejected(a) =>
                /\ requeues'[a] = requeues[a]
                /\ alerts'[a].sent = alerts[a].sent
      ]_vars

\* the channels of the send attempts logged for alert a, in order
AttemptedChannels(a) == [i \in 1..Len(sendLog[a]) |-> sendLog[a][i].channel]

(***************************************************************************)
(* C17.  When the pass that admitted an alert is over, every one of the    *)
(* alert's target channels (all registered, see create_alert) has had a    *)
(* send attempt in that pass, whichever of the sends failed and whatever   *)
(* the priority: the attempts are the target channels, in their order.     *)
(***************************************************************************)
C17_EveryTargetAttempted ==
    \A a \in AlertIds :
        alerts[a].sent =>
            /\ AttemptedChannels(a) = alerts[a].channels
            /\ \A i \in 1..Len(alerts[a].channels) :
                   IsRegistered(alerts[a].channels[i])

\* an alert of each priority whose first send failed and whose pass went on
\* to the remaining channels
C17_Witness ==
    \A p \in Priorities :
        \E a \in AlertIds :
            /\ alerts[a].priority = p
            /\ alerts[a].sent
            /\ Len(alerts[a].channels) >= 2
            /\ sendLog[a][1].result = "failed"

(***************************************************************************)
(* C18.  Only CRITICAL alerts are retried: an alert of another priority    *)
(* is never put back on the queue after a failed send, its retry_count     *)
(* stays 0, and each of its target channels gets at most one send attempt. *)
(* (The code tests the priority only for equality with CRITICAL; "medium"  *)
(* stands for LOW, MEDIUM and HIGH.)                                       *)
(***************************************************************************)
C18_RetryOnlyCritical ==
    \A a \in AlertIds :
        alerts[a].priority # "critical" =>
            /\ requeues[a] = 0
            /\ alerts[a].retry_count = 0
            /\ \A i, j \in 1..Len(sendLog[a]) :
                   sendLog[a][i].channel = sendLog[a][j].channel => i = j

\* a MEDIUM alert with a failed send whose pass is over, and nothing queued
C18_Witness ==
    \E a \in AlertIds :
        /\ alerts[a].priority = "medium"
        /\ alerts[a].sent
        /\ \E i \in 1..Len(sendLog[a]) : sendLog[a][i].result = "failed"
        /\ alert_queue = << >>
        /\ \A w \in Workers : worker[w].pc = "idle"

(***************************************************************************)
(* Shutdown.  stop() clears the flag, cancels every worker task, awaits    *)
(* them with gather(return_exceptions=True), clears the task list and      *)
(* then awaits cleanup() of every channel in dict order.                   *)
(*                                                                         *)
(* CancelledError is a BaseException (Python 3.8 and later): none of the   *)
(* `except Exception` clauses of _alert_worker and _process_alert catches  *)
(* it, so a task cancelled at an await ends there.  A task that is ready   *)
(* to resume with the alert queue.get() returned is the one case that      *)
(* depends on the interpreter: wait_for of Python 3.8 to 3.11 returns the  *)
(* result and drops the cancellation, so the worker processes the alert    *)
(* and leaves at the loop test; wait_for of 3.12 raises, and the alert     *)
(* stays on the queue.  Both outcomes are modelled.                        *)
(***************************************************************************)

\* the producers of the shutdown specification
StopRequests ==
    { Request("Price Spike", "BTC +5%", "BTCUSDT", "critical",
              <<"telegram", "email">>),
      Request("Drawdown", "Limit_hit", "ETHUSDT", "medium",
              <<"telegram">>) }

\* mutant of CancelWorker: a task in its backoff sleep is not cancelled
CancelWorker_NotSleeping(wk) ==
    IF wk.pc \in {"idle", "send"} THEN [wk EXCEPT !.pc = "cancelling"] ELSE wk

\* task.cancel() on a worker task suspended at queue.get(), at a channel
\* send or at the backoff sleep; other tasks are not touched here
CancelWorker(wk) ==
    IF wk.pc \in {"idle", "send", "sleep"}
    THEN [wk EXCEPT !.pc = "cancelling"]
    ELSE wk

\* the worker tasks that are ready to resume with a dequeued alert
GotWorkers == { w \in Workers : worker[w].pc = "got" }

\* the orders in which the workers of G can be listed
Orderings(G) ==
    { s \in [1..Cardinality(G) -> G] :
          \A i, j \in 1..Cardinality(G) : s[i] = s[j] => i = j }

StartOnce == stop_task.pc = "none" /\ Start

CreateAlertStop ==
    /\ calls < MaxAlerts
    /\ \E req \in StopRequests : Create(req)
    /\ calls' = calls + 1
    /\ UNCHANGED << now, ticks, workers_running, alert_history,
                    sent_alerts_tracker, recent_alerts, worker, stop_task,
                    alert_ids, trig, stats,
                    tasks, worker_tasks, lifecalls >>

\* mutant of WorkerAfterError: the exception ends the worker task
WorkerAfterError_Dies(w) == [worker EXCEPT ![w].pc = "done"]

\* _alert_worker after _process_alert has logged an exception: task_done()
\* and the next turn of the loop
WorkerAfterError(w) == [worker EXCEPT ![w] = Idle]

(***************************************************************************)
(* _process_alert raises in the rate-limit check before anything is        *)
(* changed (for instance alert.priority.value on a priority that is not    *)
(* an AlertPriority); the except clause of _process_alert logs it.         *)
(***************************************************************************)
ProcessRaises(w) ==
    /\ worker[w].pc = "got"
    /\ passes' = [passes EXCEPT ![worker[w].alert] = Append(@, "error")]
    /\ worker' = WorkerAfterError(w)
    /\ UNCHANGED << now, ticks, workers_running, alerts, alert_queue,
                    alert_history, sent_alerts_tracker, recent_alerts, calls,
                    last_create, sendLog, requeues, stop_task, alert_ids,
                    trig, stats,
                    tasks, worker_tasks, lifecalls >>

(***************************************************************************)
(* stop() up to its first await: the guard, the flag, task.cancel() on     *)
(* every worker task.                                                      *)
(***************************************************************************)
StopCall ==
    /\ workers_running
    /\ stop_task.pc = "none"
    /\ workers_running' = FALSE
    /\ \/ /\ worker' = [w \in Workers |-> CancelWorker(worker[w])]
          /\ alert_queue' = alert_queue
       \/ /\ GotWorkers # {}
          /\ \E order \in Orderings(GotWorkers) :
                 alert_queue' =
                     [i \in 1..Len(order) |-> worker[order[i]].alert]
                         \o alert_queue
          /\ worker' = [w \in Workers |->
                           IF w \in GotWorkers
                           THEN [Idle EXCEPT !.pc = "cancelling"]
                           ELSE CancelWorker(worker[w])]
    /\ stop_task' = [stop_task EXCEPT !.pc = "gather"]
    /\ UNCHANGED << now, ticks, alerts, alert_history, sent_alerts_tracker,
                    recent_alerts, calls, last_create, sendLog, passes,
                    requeues, alert_ids, trig, stats,
                    tasks, worker_tasks, lifecalls >>

\* the cancelled task runs: CancelledError leaves _alert_worker
Cancelled(w) ==
    /\ worker[w].pc = "cancelling"
    /\ worker' = [worker EXCEPT ![w].pc = "done"]
    /\ UNCHANGED << now, ticks, workers_running, alerts, alert_queue,
                    alert_history, sent_alerts_tracker, recent_alerts, calls,
                    last_create, sendLog, passes, requeues, stop_task,
                    alert_ids, trig, stats,
                    tasks, worker_tasks, lifecalls >>

\* _alert_worker: the loop test finds the flag cleared
WorkerExit(w) ==
    /\ worker[w].pc = "idle"
    /\ ~workers_running
    /\ worker' = [worker EXCEPT ![w].pc = "done"]
    /\ UNCHANGED << now, ticks, workers_running, alerts, alert_queue,
                    alert_history, sent_alerts_tracker, recent_alerts, calls,
                    last_create, sendLog, passes, requeues, stop_task,
                    alert_ids, trig, stats,
                    tasks, worker_tasks, lifecalls >>

\* stop(): gather returns when every worker task is over; the results,
\* CancelledError included, are dropped; worker_tasks.clear()
GatherDone ==
    /\ stop_task.pc = "gather"
    /\ \A w \in Workers : worker[w].pc = "done"
    /\ stop_task' = [stop_task EXCEPT !.pc = "cleanup"]
    /\ UNCHANGED << now, ticks, workers_running, alerts, alert_queue,
                    alert_history, sent_alerts_tracker, recent_alerts, worker,
                    calls, last_create, sendLog, passes, requeues, alert_ids,
                    trig, stats,
                    tasks, worker_tasks, lifecalls >>

\* stop(): await channel.cleanup() of the next channel; an exception of
\* cleanup() is not caught and leaves stop()
CleanupStep ==
    /\ stop_task.pc = "cleanup"
    /\ Len(stop_task.cleaned) < Len(Channels)
    /\ \E r \in {"ok", "raised"} :
           stop_task' =
               [pc |-> IF r = "raised" THEN "raised" ELSE "cleanup",
                cleaned |-> Append(stop_task.cleaned,
                                   [channel |->
                                        Channels[Len(stop_task.cleaned) + 1],
                                    result |-> r])]
    /\ UNCHANGED << now, ticks, workers_running, alerts, alert_queue,
                    alert_history, sent_alerts_tracker, recent_alerts, worker,
                    calls, last_create, sendLog, passes, requeues, alert_ids,
                    trig, stats,
                    tasks, worker_tasks, lifecalls >>

\* stop(): the loop over the channels is over, stop() returns
StopReturns ==
    /\ stop_task.pc = "cleanup"
    /\ Len(stop_task.cleaned) = Len(Channels)
    /\ stop_task' = [stop_task EXCEPT !.pc = "done"]
    /\ UNCHANGED << now, ticks, workers_running, alerts, alert_queue,
                    alert_history, sent_alerts_tracker, recent_alerts, worker,
                    calls, last_create, sendLog, passes, requeues, alert_ids,
                    trig, stats,
                    tasks, worker_tasks, lifecalls >>

\* the steps of worker task w that the event loop runs without a producer
WorkerStep(w) ==
    \/ ProcessAlert(w)
    \/ SendSucceeds(w)
    \/ SendFails(w)
    \/ BackoffElapsed(w)
    \/ Cancelled(w)
    \/ WorkerExit(w)

NextStop ==
    \/ StartOnce
    \/ CreateAlertStop
    \/ \E w \in Workers : Dequeue(w)
    \/ \E w \in Workers : ProcessAlert(w)
    \/ \E w \in Workers : ProcessRaises(w)
    \/ \E w \in Workers : SendSucceeds(w)
    \/ \E w \in Workers : SendFails(w)
    \/ \E w \in Workers : BackoffElapsed(w)
    \/ StopCall
    \/ \E w \in Workers : Cancelled(w)
    \/ \E w \in Workers : WorkerExit(w)
    \/ GatherDone
    \/ CleanupStep
    \/ StopReturns

\* the event loop runs every task that is ready; a send returns or raises;
\* a timer fires
SpecStop ==
    /\ Init
    /\ [][NextStop]_vars
    /\ \A w \in Workers : WF_vars(WorkerStep(w))
    /\ WF_vars(GatherDone)

\* stop() has been invoked on the running engine
StopInvoked == stop_task.pc # "none"

\* every worker task is over
AllDone == \A w \in Workers : worker[w].pc = "done"

CleanedUp(c) ==
    \E i \in 1..Len(stop_task.cleaned) : stop_task.cleaned[i].channel = c

(***************************************************************************)
(* C15.  When stop() is over, by returning or by an exception, cleanup()   *)
(* has been invoked on every registered channel, also when the cleanup()   *)
(* of another channel raised; no cleanup() is invoked before every worker  *)
(* task is over, and once a channel has been cleaned up no send on it is   *)
(* started.                                                                *)
(***************************************************************************)
C15_CleanupEveryChannel ==
    /\ [](stop_task.pc \in {"done", "raised"} =>
              \A i \in 1..Len(Channels) : CleanedUp(Channels[i]))
    /\ [](stop_task.cleaned # << >> => AllDone)
    /\ [][ \A a \in AlertIds :
               (Len(sendLog'[a]) > Len(sendLog[a])) =>
                   ~CleanedUp(sendLog'[a][Len(sendLog'[a])].channel) ]_vars

(***************************************************************************)
(* C19.  An exception while one alert is processed does not end the        *)
(* worker task: the worker is back at the queue, and a worker task is      *)
(* over only after stop() has been invoked.                                *)
(***************************************************************************)
C19_WorkerSurvivesFailure ==
    /\ [](\A w \in Workers : worker[w].pc = "done" => StopInvoked)
    /\ [][ \A w \in Workers :
               (/\ worker[w].pc = "got"
                /\ worker'[w] # worker[w]
                /\ Len(passes'[worker[w].alert]) > Len(passes[worker[w].alert])
                /\ passes'[worker[w].alert][Len(passes'[worker[w].alert])]
                       = "error")
               => worker'[w] = Idle ]_vars

\* more alerts than workers have been processed, one of them with an
\* exception and a later one up to the history: a worker went on after the
\* failure (before any stop)
C19_Witness ==
    /\ ~StopInvoked
    /\ Len(alerts) = NumWorkers + 1
    /\ passes[1] = << "error" >>
    /\ \A a \in AlertIds : a > 1 => passes[a] = << "error" >>
                                    \/ alerts[a].sent
    /\ alerts[NumWorkers + 1].sent
    /\ \A a \in AlertIds : passes[a] # << >>

(***************************************************************************)
(* Triggers.  _init_triggers registers the enabled entries of              *)
(* config['triggers'] whose type _create_trigger knows; check_triggers     *)
(* awaits check(market_data) of each in dict order and, when the trigger   *)
(* asks for it, create_alert with alert_data, inside one try/except per    *)
(* trigger.                                                                *)
(***************************************************************************)
TriggersConfig ==
    << [name |-> "momentum",  type |-> "signal", enabled |-> TRUE],
       [name |-> "breakout",  type |-> "price",  enabled |-> TRUE],
       [name |-> "drawdown",  type |-> "risk",   enabled |-> TRUE],
       [name |-> "whale",     type |-> "volume", enabled |-> TRUE],
       [name |-> "funding",   type |-> "price",  enabled |-> FALSE] >>

\* trigger_map of _create_trigger: the known trigger types
TriggerTypes == {"signal", "price", "risk"}

\* self.triggers after _init_triggers, as the list of its keys in dict order
Triggers ==
    LET kept == SelectSeq(TriggersConfig,
                          LAMBDA c : c.enabled /\ c.type \in TriggerTypes)
    IN  [i \in 1..Len(kept) |-> kept[i].name]

\* what one turn of the loop of check_triggers can meet: check returns
\* (False, _); check returns (True, alert_data) and create_alert returns;
\* check raises; create_alert raises (alert_data is not its keyword set)
TriggerOutcomes == {"quiet", "alert", "check_raised", "create_raised"}

\* mutant of AfterTrigger: the exception of a trigger leaves check_triggers
AfterTrigger_Propagates(i, outcome) ==
    IF outcome \in {"check_raised", "create_raised"}
    THEN [pc |-> "failed", idx |-> i]
    ELSE [pc |-> "check", idx |-> i + 1]

\* check_triggers after the turn of trigger i: the except clause logs an
\* exception and the loop goes on to the next trigger
AfterTrigger(i, outcome) == [pc |-> "check", idx |-> i + 1]

\* check_triggers is called
StartPass ==
    /\ trig.pc \in {"none", "done"}
    /\ trig' = [pc |-> "check", idx |-> 1, checked |-> << >>]
    /\ UNCHANGED << now, ticks, workers_running, alerts, alert_queue,
                    alert_history, sent_alerts_tracker, recent_alerts, worker,
                    calls, last_create, sendLog, passes, requeues, stop_task,
                    alert_ids, stats,
                    tasks, worker_tasks, lifecalls >>

\* one turn of the loop: await trigger.check(market_data) and what follows
TriggerCheck ==
    /\ trig.pc = "check"
    /\ trig.idx <= Len(Triggers)
    /\ \E outcome \in TriggerOutcomes :
           /\ trig' = [pc |-> AfterTrigger(trig.idx, outcome).pc,
                       idx |-> AfterTrigger(trig.idx, outcome).idx,
                       checked |-> Append(trig.checked,
                                          [trigger |-> Triggers[trig.idx],
                                           outcome |-> outcome])]
           /\ IF outcome = "alert"
              THEN /\ calls < MaxAlerts
                   /\ \E req \in Requests : Create(req)
                   /\ calls' = calls + 1
              ELSE UNCHANGED << alerts, alert_queue, sendLog, passes,
                                requeues, last_create, calls >>
    /\ UNCHANGED << now, ticks, workers_running, alert_history,
                    sent_alerts_tracker, recent_alerts, worker, stop_task,
                    alert_ids, stats,
                    tasks, worker_tasks, lifecalls >>

\* the loop is over, check_triggers returns
EndPass ==
    /\ trig.pc = "check"
    /\ trig.idx > Len(Triggers)
    /\ trig' = [trig EXCEPT !.pc = "done"]
    /\ UNCHANGED << now, ticks, workers_running, alerts, alert_queue,
                    alert_history, sent_alerts_tracker, recent_alerts, worker,
                    calls, last_create, sendLog, passes, requeues, stop_task,
                    alert_ids, stats,
                    tasks, worker_tasks, lifecalls >>

NextTriggers ==
    \/ StartPass
    \/ TriggerCheck
    \/ EndPass

SpecTriggers == Init /\ [][NextTriggers]_vars

\* the triggers whose check has been awaited in the pass, in order
CheckedTriggers == [i \in 1..Len(trig.checked) |-> trig.checked[i].trigger]

(***************************************************************************)
(* C20.  A check_triggers pass never fails, and when it returns the check  *)
(* of every registered trigger has been awaited exactly once (the checks   *)
(* are the registered triggers, each one time, in dict order), whichever   *)
(* triggers raised in check or in the create_alert made for them.          *)
(***************************************************************************)
C20_EveryTriggerChecked ==
    /\ trig.pc # "failed"
    /\ trig.pc \in {"check", "done"} =>
           /\ CheckedTriggers = SubSeq(Triggers, 1, Len(trig.checked))
           /\ trig.idx = Len(trig.checked) + 1
    /\ trig.pc = "done" => CheckedTriggers = Triggers

\* a pass has returned in which the first trigger raised in check, the
\* second in create_alert and the third created an alert
C20_Witness ==
    /\ trig.pc = "done"
    /\ Len(trig.checked) = 3
    /\ trig.checked[1].outcome = "check_raised"
    /\ trig.checked[2].outcome = "create_raised"
    /\ trig.checked[3].outcome = "alert"
    /\ Len(alerts) = 1

\* this step starts a channel send of alert a
SendStarts(a) == Len(sendLog'[a]) > Len(sendLog[a])

\* worker w is the one that starts the send
Sender(w, a) ==
    /\ worker'[w].pc = "send"
    /\ worker'[w].alert = a
    /\ worker'[w].entry = Len(sendLog'[a])
    /\ worker'[w] # worker[w]

(***************************************************************************)
(* C21.  A channel send is started only by a worker that, in the same      *)
(* step, has dequeued the alert and has had both the rate-limit check and  *)
(* the duplicate check of the pass accept it and records the pass as       *)
(* admitted, or by a worker that goes on with a pass in which it has      *)
(* already sent (that pass was admitted before its first send).            *)
(***************************************************************************)
C21_ChecksBeforeSend ==
    [][ \A a \in AlertIds :
            SendStarts(a) =>
                \E w \in Workers :
                    /\ Sender(w, a)
                    /\ \/ /\ worker[w].pc = "got"
                          /\ worker[w].alert = a
                          /\ CheckRateLimit(alerts[a].channels, 1,
                                            alerts[a].priority,
                                            sent_alerts_tracker, now).ok
                          /\ ~IsDuplicate(alerts[a], recent_alerts, now).dup
                          /\ passes'[a] = Append(passes[a], "admitted")
                       \/ /\ worker[w].pc \in {"send", "sleep"}
                          /\ worker[w].alert = a
                          /\ worker[w].idx >= 1
      ]_vars

\* one alert is being sent after its admission, one was rejected by the
\* duplicate check and one by the rate-limit check, both without any send
C21_Witness ==
    \E a, b, c \in AlertIds :
        /\ passes[a] = << "admitted" >>
        /\ sendLog[a] # << >>
        /\ passes[b] = << "duplicate" >>
        /\ sendLog[b] = << >>
        /\ passes[c] = << "rate_limited" >>
        /\ sendLog[c] = << >>

\* the producers of the model may make the call create_alert(req)
MayCall(req) ==
    /\ calls < MaxAlerts
    /\ Targets(alerts, 1) + Len(AvailableChannels(ResolveChannels(req)))
           <= MaxTargets

(***************************************************************************)
(* C22.  create_alert never waits: in every state, whatever the workers    *)
(* are doing (none started, all of them inside a send that does not        *)
(* return, asleep in a backoff), every call the producers may make can     *)
(* run to its end in one step, and the step that makes the call returns    *)
(* the result, the id or None, without any worker having moved and         *)
(* without the clock advancing.                                            *)
(***************************************************************************)
C22_CreateNeverWaits ==
    /\ [](\A req \in Requests :
              MayCall(req) =>
                  ENABLED (CreateAlert /\ last_create'[1].request = req))
    /\ [][ calls' # calls =>
               /\ worker' = worker
               /\ now' = now
               /\ sendLog' \in {sendLog, Append(sendLog, << >>)}
               /\ last_create'[1].result \in {None, Len(alerts) + 1}
               /\ last_create'[1].result # None =>
                      alert_queue' = Append(alert_queue, Len(alerts) + 1)
         ]_vars

\* no worker has been started, two alerts are waiting on the queue and the
\* second call has returned its id
C22_Witness ==
    /\ ~workers_running
    /\ \A w \in Workers : worker[w].pc = "none"
    /\ alert_queue = << 1, 2 >>
    /\ last_create # << >>
    /\ last_create[1].result = 2

\* channel name c is configured, enabled and of a known type
EnabledKnown(c) ==
    \E i \in 1..Len(ChannelsConfig) :
        /\ ChannelsConfig[i].name = c
        /\ ChannelsConfig[i].enabled
        /\ ChannelsConfig[i].type \in ChannelTypes

\* the elements of list chs that are registered channels, in the order of chs
RECURSIVE RegisteredAmong(_)
RegisteredAmong(chs) ==
    IF chs = << >> THEN << >>
    ELSE IF EnabledKnown(Head(chs))
         THEN << Head(chs) >> \o RegisteredAmong(Tail(chs))
         ELSE RegisteredAmong(Tail(chs))

\* the list the targets of a request are taken from
SourceList(req) ==
    CASE req.channels # NoList -> req.channels
      [] req.channels = NoList
           /\ (\E d \in DefaultChannelsConfig : d.priority = req.priority)
         -> (CHOOSE d \in DefaultChannelsConfig :
                 d.priority = req.priority).channels
      [] OTHER -> [i \in 1..Len(ChannelsConfig) |-> ChannelsConfig[i].name]

(***************************************************************************)
(* C23.  The target channels of an alert that create_alert enqueues are    *)
(* the registered channels, in order, of the explicit list when one is     *)
(* given, else of the default list of the priority, else of all channels;  *)
(* they never change afterwards, and no target of any alert is a channel   *)
(* that is unregistered or disabled.                                       *)
(***************************************************************************)
C23_TargetChannels ==
    /\ [][ Len(alerts') > Len(alerts) =>
               alerts'[Len(alerts')].channels =
                   RegisteredAmong(SourceList(last_create'[1].request))
         ]_vars
    /\ [][ \A a \in AlertIds : alerts'[a].channels = alerts[a].channels ]_vars
    /\ [](\A a \in AlertIds :
              /\ alerts[a].channels # << >>
              /\ \A i \in 1..Len(alerts[a].channels) :
                     EnabledKnown(alerts[a].channels[i]))

\* the last call gave no list, its priority has a default list with a
\* disabled channel in it, and the alert has the one registered channel of
\* that list as its target; an earlier alert has the channels of its
\* explicit list
C23_Witness ==
    /\ last_create # << >>
    /\ last_create[1].request.channels = NoList
    /\ last_create[1].request.priority = "critical"
    /\ last_create[1].result = Len(alerts)
    /\ alerts[Len(alerts)].channels = << "discord" >>
    /\ \E a \in AlertIds : alerts[a].channels = << "telegram", "email" >>

(***************************************************************************)
(* C24.  What a get_alert_stats call returns has total_alerts_sent equal   *)
(* to the number of history records, pending_alerts equal to the number    *)
(* of alerts on the queue and workers_running equal to the flag, in the    *)
(* state of the call; the call changes nothing of the engine.              *)
(***************************************************************************)
C24_StatsAreCurrent ==
    [][ stats' # stats =>
            /\ stats'[1].total_alerts_sent = Len(alert_history)
            /\ stats'[1].pending_alerts = Len(alert_queue)
            /\ stats'[1].workers_running = workers_running
            /\ UNCHANGED << now, ticks, workers_running, alerts, alert_queue,
                            alert_history, sent_alerts_tracker,
                            recent_alerts, worker, calls, last_create,
                            sendLog, passes, requeues >>
      ]_vars

\* a call made after the history has dropped a record, with an alert
\* waiting on the queue
C24_Witness ==
    /\ stats # << >>
    /\ stats[1].total_alerts_sent = MaxHistorySize
    /\ Cardinality({ a \in AlertIds : alerts[a].sent }) > MaxHistorySize
    /\ stats[1].pending_alerts = 1
    /\ Len(alert_queue) = 1
    /\ stats[1].workers_running

\* this step records a pass of alert a with verdict v
PassRecorded(a, v) == passes'[a] = Append(passes[a], v)

\* no other alert has the (symbol, title, message) of alert a
OnlyOfItsKind(a) == \A b \in AlertIds : SameTriple(a, b) => b = a

(***************************************************************************)
(* C25.  A CRITICAL alert that the retry path has put back on the queue    *)
(* is not suppressed as a duplicate of its own earlier attempt: when no    *)
(* other alert has its (symbol, title, message), no pass of it ends at     *)
(* the duplicate check, and a pass that the rate limits allow starts a     *)
(* send.                                                                   *)
(***************************************************************************)
C25_RetryNotOwnDuplicate ==
    [][ \A a \in AlertIds :
            ( /\ alerts[a].priority = "critical"
              /\ requeues[a] >= 1
              /\ OnlyOfItsKind(a)
              /\ Len(passes'[a]) > Len(passes[a]) )
            => /\ ~PassRecorded(a, "duplicate")
               /\ PassRecorded(a, "admitted") => SendStarts(a)
      ]_vars

\* the number of passes of alert a that went on to the sends
AdmittedPasses(a) ==
    Len(SelectSeq(passes[a], LAMBDA v : v = "admitted"))

\* the number of entries of the dispatch queue that are alert a
QueueEntries(a) ==
    Cardinality({ i \in 1..Len(alert_queue) : alert_queue[i] = a })

(***************************************************************************)
(* C26.  A pass of a CRITICAL alert in which one or more sends fail puts   *)
(* the alert back on the queue once and adds 1 to its retry_count,         *)
(* however many sends failed: the puts of the retry path and the           *)
(* retry_count of an alert are at most the number of its passes that       *)
(* sent, and the dispatch queue never holds two entries for one alert.     *)
(***************************************************************************)
C26_OneRequeuePerPass ==
    \A a \in AlertIds :
        /\ requeues[a] <= AdmittedPasses(a)
        /\ alerts[a].retry_count <= AdmittedPasses(a)
        /\ QueueEntries(a) <= 1

(***************************************************************************)
(* C27.  An alert is in the history only when it is terminal: an alert     *)
(* that the retry path has put back on the queue and that still waits      *)
(* there for its retry is not in the history and is not marked sent.       *)
(***************************************************************************)
C27_HistoryOnlyWhenTerminal ==
    \A a \in AlertIds :
        (requeues[a] >= 1 /\ InQueue(a)) =>
            /\ ~InHistory(a)
            /\ ~alerts[a].sent

\* the send timestamps of (channel c, priority of alert a) in tracker tr
Stamps(tr, a, c) == tr[TrackerKey(c, alerts[a].priority)]

(***************************************************************************)
(* C28.  When a pass admits an alert and starts its first send, one send   *)
(* timestamp per target channel has been added to the tracker under        *)
(* (channel, priority): the tracker of the state in which the send is      *)
(* pending holds a timestamp of the time of admission for every target     *)
(* channel, so that the rate-limit check of another worker counts it.      *)
(***************************************************************************)
C28_TrackedBeforeSend ==
    [][ \A a \in AlertIds :
            PassRecorded(a, "admitted") =>
                \A i \in 1..Len(alerts[a].channels) :
                    \E j \in 1..Len(Stamps(sent_alerts_tracker', a,
                                           alerts[a].channels[i])) :
                        Stamps(sent_alerts_tracker', a,
                               alerts[a].channels[i])[j] = now
      ]_vars

\* every send attempt of alert a so far has failed
AllSendsFailed(a) ==
    /\ sendLog[a] # << >>
    /\ \A i \in 1..Len(sendLog[a]) : sendLog[a][i].result = "failed"

(***************************************************************************)
(* C29.  An alert that is in the history with its sent flag set has, for   *)
(* every target channel, a last send attempt that is over (delivered or    *)
(* failed), and an alert whose sends all failed is not marked sent.        *)
(***************************************************************************)
C29_SentMeansDelivered ==
    \A a \in AlertIds :
        /\ (alerts[a].sent /\ InHistory(a)) =>
               \A i \in 1..Len(alerts[a].channels) :
                   LET r == ResultsOn(a, alerts[a].channels[i])
                   IN  r # << >> /\ r[Len(r)] \in {"delivered", "failed"}
        /\ AllSendsFailed(a) => ~alerts[a].sent

(***************************************************************************)
(* Progress.  The engine without stop(): the event loop runs every worker  *)
(* task that is ready (an alert on the queue for an idle worker, a         *)
(* dequeued alert to process), every channel send returns or raises, and   *)
(* every backoff timer fires.  The producers are those of StatsRequests;   *)
(* nothing obliges them to call.                                           *)
(***************************************************************************)
WorkerProgress(w) ==
    \/ Dequeue(w)
    \/ ProcessAlert(w)
    \/ SendSucceeds(w)
    \/ SendFails(w)
    \/ BackoffElapsed(w)

NextProgress ==
    \/ Start
    \/ CreateAlertStats
    \/ \E w \in Workers : Dequeue(w)
    \/ \E w \in Workers : ProcessAlert(w)
    \/ \E w \in Workers : SendSucceeds(w)
    \/ \E w \in Workers : SendFails(w)
    \/ \E w \in Workers : BackoffElapsed(w)

SpecProgress ==
    /\ Init
    /\ [][NextProgress]_vars
    /\ \A w \in Workers : WF_vars(WorkerProgress(w))

\* alert a has been created
Created(a) == a \in AlertIds

\* alert a has been suppressed by admission or recorded in the history
\* (recording sets the sent flag; the history may drop the record later)
Outcome(a) == Created(a) /\ (Rejected(a) \/ alerts[a].sent)

(***************************************************************************)
(* C30.  While the engine is running, every alert that create_alert has    *)
(* put on the queue eventually has a pass recorded (it was dequeued) and   *)
(* an outcome, suppressed by admission or recorded in the history; and     *)
(* from some point on, when the producers have stopped, the dispatch       *)
(* queue is empty for good.                                                *)
(***************************************************************************)
C30_EveryAlertReachesOutcome ==
    /\ \A a \in 1..MaxAlerts :
           (Created(a) /\ workers_running)
               ~> (Outcome(a) /\ passes[a] # << >>)
    /\ [](workers_running =>
              <>[](alert_queue = << >>
                   /\ \A w \in Workers : worker[w].pc = "idle"))

\* every call has been made, each alert has its outcome, one by the
\* duplicate check after its retry, and the queue is empty
C30_Witness ==
    /\ calls = MaxAlerts
    /\ Len(alerts) = MaxAlerts
    /\ \A a \in AlertIds : Outcome(a)
    /\ \E a \in AlertIds : requeues[a] >= 1 /\ Len(passes[a]) >= 2
    /\ alert_queue = << >>
    /\ \A w \in Workers : worker[w].pc = "idle"

(***************************************************************************)
(* C31.  The sends of one alert do not wait for one another: the step      *)
(* that admits the alert starts the send on every target channel, so that  *)
(* a send that never returns holds back no other channel.                  *)
(***************************************************************************)
C31_SendsStartTogether ==
    [][ \A a \in AlertIds :
            PassRecorded(a, "admitted") =>
                Len(sendLog'[a]) = Len(sendLog[a]) + Len(alerts[a].channels)
      ]_vars

NextSingle ==
    \/ Tick
    \/ Start
    \/ CreateAlert
    \/ Dequeue(1)
    \/ ProcessAlert(1)
    \/ SendSucceeds(1)
    \/ SendFails(1)
    \/ BackoffElapsed(1)

SpecSingle == Init /\ [][NextSingle]_vars

(***************************************************************************)
(* C33.  With a single worker the queue is first in, first out: a step     *)
(* changes the queue only by the worker taking its head or by adding one   *)
(* alert at its tail, and the retry path adds at the tail, behind every    *)
(* alert that is on the queue at that moment.                              *)
(***************************************************************************)
C33_SingleWorkerFifo ==
    [][ /\ \/ alert_queue' = alert_queue
           \/ /\ alert_queue # << >>
              /\ alert_queue' = Tail(alert_queue)
              /\ worker'[1].pc = "got"
              /\ worker'[1].alert = Head(alert_queue)
           \/ \E a \in 1..Len(alerts') : alert_queue' = Append(alert_queue, a)
        /\ \A a \in AlertIds :
               requeues'[a] > requeues[a] =>
                   alert_queue' = Append(alert_queue, a)
        /\ (worker'[1].pc = "got" /\ worker[1].pc # "got") =>
               (alert_queue # << >> /\ worker'[1].alert = Head(alert_queue)
                /\ alert_queue' = Tail(alert_queue))
      ]_vars

\* a retried alert has been put behind two alerts that were waiting, and
\* the worker has taken the first of them
C33_Witness ==
    /\ Len(alerts) = 3
    /\ requeues[1] = 1
    /\ alert_queue = << 3, 1 >>
    /\ worker[1].pc = "got"
    /\ worker[1].alert = 2

\* this step runs the rate-limit check of a pass of alert a
RateChecked(a) == Len(passes'[a]) > Len(passes[a])

(***************************************************************************)
(* C34.  After the rate-limit check of an alert, whatever its result, the  *)
(* tracker of (channel, priority) of every target channel of the alert     *)
(* holds no timestamp older than one hour.                                 *)
(***************************************************************************)
C34_StalePruned ==
    [][ \A a \in AlertIds :
            RateChecked(a) =>
                \A i \in 1..Len(alerts[a].channels) :
                    LET st == Stamps(sent_alerts_tracker', a,
                                     alerts[a].channels[i])
                    IN  \A j \in 1..Len(st) : st[j] >= now - HourSeconds
      ]_vars

\* worker w starts the sleep that precedes a re-enqueue of its alert
StartsBackoff(w) == worker[w].pc = "send" /\ worker'[w].pc = "sleep"

\* worker w puts its alert back on the queue
ReEnqueues(w) ==
    /\ worker[w].pc = "sleep"
    /\ requeues'[worker[w].alert] > requeues[worker[w].alert]

(***************************************************************************)
(* C35.  The sleep that follows the increment of retry_count to n lasts    *)
(* 2^n seconds, n = 1, 2, 3 (2, 4, 8 seconds), and the alert is put back   *)
(* on the queue only when that delay has elapsed.                          *)
(***************************************************************************)
C35_BackoffDoubles ==
    [][ \A w \in Workers :
            /\ StartsBackoff(w) =>
                   LET n == alerts'[worker[w].alert].retry_count
                   IN  /\ n = alerts[worker[w].alert].retry_count + 1
                       /\ n \in 1..MaxRetries
                       /\ worker'[w].wake - now = 2 ^ n
                       /\ worker'[w].wake - now \in {2, 4, 8}
                       /\ requeues' = requeues
            /\ ReEnqueues(w) =>
                   /\ now' >= worker[w].wake
                   /\ alert_queue' = Append(alert_queue, worker[w].alert)
      ]_vars

\* an alert has been retried three times in a row: the third re-enqueue
\* happens 2 + 4 + 8 seconds after the first failure
C35_Witness ==
    \E a \in AlertIds :
        /\ alerts[a].retry_count = MaxRetries
        /\ requeues[a] = MaxRetries
        /\ ticks = 0
        /\ now = 14

\* a maximum of 0 is configured for (target channel, priority) of alert a
ZeroLimitTarget(a) ==
    \E i \in 1..Len(alerts[a].channels) :
        \/ MaxPerHour(alerts[a].channels[i], alerts[a].priority) = 0
        \/ MaxPerMinute(alerts[a].channels[i], alerts[a].priority) = 0

(***************************************************************************)
(* C36.  A configured maximum of 0 is a limit, met by a count of 0: every  *)
(* pass of an alert one of whose target channels has a maximum of 0        *)
(* configured for the alert's priority ends at the rate-limit check.       *)
(***************************************************************************)
C36_ZeroIsALimit ==
    [][ \A a \in AlertIds :
            (RateChecked(a) /\ ZeroLimitTarget(a)) =>
                PassRecorded(a, "rate_limited")
      ]_vars

\* some pass of alert a got through the rate-limit and duplicate checks
EverAdmitted(a) == \E i \in 1..Len(passes[a]) : passes[a][i] = "admitted"

(***************************************************************************)
(* C37.  Alerts that differ in symbol, title or message are never          *)
(* duplicates of each other, whatever characters the strings contain: a    *)
(* pass ends at the duplicate check only if an alert with the very same    *)
(* (symbol, title, message) was admitted before.                           *)
(***************************************************************************)
C37_DuplicateOnlyOfSameTriple ==
    [][ \A b \in AlertIds :
            PassRecorded(b, "duplicate") =>
                \E a \in AlertIds : SameTriple(a, b) /\ EverAdmitted(a)
      ]_vars

\* the step adds no timestamp to any tracker list (it may drop some)
NoNewStamps ==
    \A k \in TrackerKeys :
        /\ Len(sent_alerts_tracker'[k]) <= Len(sent_alerts_tracker[k])
        /\ \A j \in 1..Len(sent_alerts_tracker'[k]) :
               \E i \in 1..Len(sent_alerts_tracker[k]) :
                   sent_alerts_tracker'[k][j] = sent_alerts_tracker[k][i]

\* some alert with the key of alert b has been admitted
KeyAdmitted(b) ==
    \E a \in AlertIds :
        AlertHash(alerts[a]) = AlertHash(alerts[b]) /\ EverAdmitted(a)

(***************************************************************************)
(* C38.  A suppressed pass adds nothing to the admission state: a pass     *)
(* that ends at the duplicate check or at the rate-limit check adds no     *)
(* timestamp to any tracker list, adds no key to recent_alerts and leaves  *)
(* the history and the alert as they are; so a pass is rejected as a       *)
(* duplicate only if an alert with its key was admitted, never because of  *)
(* an alert that was rate limited.                                         *)
(***************************************************************************)
C38_SuppressionAddsNothing ==
    [][ \A a \in AlertIds :
            /\ (PassRecorded(a, "duplicate") \/ PassRecorded(a, "rate_limited"))
                   => /\ NoNewStamps
                      /\ recent_alerts' = recent_alerts
                      /\ alert_history' = alert_history
                      /\ alerts' = alerts
                      /\ sendLog' = sendLog
            /\ PassRecorded(a, "duplicate") => KeyAdmitted(a)
      ]_vars

\* an alert was rate limited and an identical alert, processed once the
\* limit allowed it, was admitted; the rate-limited one left no trace
C38_Witness ==
    \E a, b \in AlertIds :
        /\ a # b
        /\ SameTriple(a, b)
        /\ alerts[a].priority = alerts[b].priority
        /\ alerts[a].channels = alerts[b].channels
        /\ passes[a] = << "rate_limited" >>
        /\ passes[b] = << "admitted" >>
        /\ ~InHistory(a)
        /\ InHistory(b)

\* the number of records of alert a in the history
Records(a) == Len(SelectSeq(alert_history, LAMBDA x : x = a))

\* this step appends a record of alert a to the history
Recorded(a) ==
    /\ alert_history' # alert_history
    /\ alert_history' # << >>
    /\ alert_history'[Len(alert_history')] = a

(***************************************************************************)
(* C40.  No alert is recorded in the history more than once, whatever the  *)
(* number of workers and of retry passes: the history never holds two      *)
(* records of one alert, and a step records an alert only if no earlier    *)
(* step has recorded it (a recorded alert is marked sent for good).        *)
(***************************************************************************)
C40_RecordedOnce ==
    /\ [](\A a \in AlertIds : Records(a) <= 1)
    /\ [][ \A a \in AlertIds :
               Recorded(a) =>
                   /\ ~alerts[a].sent
                   /\ alerts'[a].sent
                   /\ Records(a) = 0
         ]_vars

\* an alert went through its original pass and two retry passes, on two
\* workers, and has one record
C40_Witness ==
    \E a \in AlertIds :
        /\ requeues[a] >= 2
        /\ Len(passes[a]) >= 3
        /\ Terminal(a)
        /\ Records(a) = 1

(***************************************************************************)
(* The lifecycle of the engine: start() and stop() calls made in any order *)
(* and overlapping at their awaits, with an empty queue.  A worker task    *)
(* waits in wait_for(queue.get()); each timeout brings it to the loop test *)
(* `while self.workers_running`.  A task is "running", "cancelling" (its   *)
(* cancel() was called and the CancelledError is not yet delivered) or     *)
(* "done".  The other parts of the engine take no step here.               *)
(***************************************************************************)
TaskIds == 1..Len(tasks)

LifeFrame ==
    UNCHANGED << now, ticks, alerts, alert_queue, alert_history,
                 sent_alerts_tracker, recent_alerts, worker, calls,
                 last_create, sendLog, passes, requeues, stop_task,
                 alert_ids, trig, stats >>

\* a call that has returned
Returned(kind) == [kind |-> kind, pc |-> "done", snap |-> << >>]

\* task.cancel() for every task of the list: a task that is done stays done
CancelAll(tks, list) ==
    [t \in 1..Len(tks) |->
        IF tks[t] = "running" /\ \E i \in 1..Len(list) : list[i] = t
        THEN "cancelling" ELSE tks[t]]

\* start() up to its first await: the guard, the flag, and the first
\* channel.initialize()
StartBegins ==
    /\ Len(lifecalls) < MaxLifeCalls
    /\ IF workers_running
       THEN /\ lifecalls' = Append(lifecalls, Returned("start"))
            /\ UNCHANGED workers_running
       ELSE /\ workers_running' = TRUE
            /\ lifecalls' = Append(lifecalls, [kind |-> "start",
                                               pc |-> "init",
                                               snap |-> << >>])
    /\ UNCHANGED << tasks, worker_tasks >>
    /\ LifeFrame

\* start() after the channels are initialised: num_workers tasks are
\* created and appended to self.worker_tasks
StartCreatesWorkers(i) ==
    /\ lifecalls[i].kind = "start"
    /\ lifecalls[i].pc = "init"
    /\ tasks' = tasks \o [k \in 1..NumWorkers |-> "running"]
    /\ worker_tasks' = worker_tasks \o [k \in 1..NumWorkers |-> Len(tasks) + k]
    /\ lifecalls' = [lifecalls EXCEPT ![i].pc = "done"]
    /\ UNCHANGED workers_running
    /\ LifeFrame

\* stop() up to its first await: the guard, the flag, task.cancel() for
\* every task of self.worker_tasks, and gather(*self.worker_tasks); the
\* gather of no task is done at once, and stop() goes on to clear the list
\* and to the first channel.cleanup()
StopBegins ==
    /\ Len(lifecalls) < MaxLifeCalls
    /\ IF ~workers_running
       THEN /\ lifecalls' = Append(lifecalls, Returned("stop"))
            /\ UNCHANGED << workers_running, tasks, worker_tasks >>
       ELSE /\ workers_running' = FALSE
            /\ tasks' = CancelAll(tasks, worker_tasks)
            /\ IF worker_tasks = << >>
               THEN lifecalls' = Append(lifecalls, [kind |-> "stop",
                                                    pc |-> "cleanup",
                                                    snap |-> << >>])
               ELSE lifecalls' = Append(lifecalls, [kind |-> "stop",
                                                    pc |-> "gather",
                                                    snap |-> worker_tasks])
            /\ UNCHANGED worker_tasks
    /\ LifeFrame

\* stop(): the gather returns when the tasks it was given are done, and
\* self.worker_tasks.clear() empties the list as it is then
StopGathered(i) ==
    /\ lifecalls[i].kind = "stop"
    /\ lifecalls[i].pc = "gather"
    /\ \A k \in 1..Len(lifecalls[i].snap) : tasks[lifecalls[i].snap[k]] = "done"
    /\ worker_tasks' = << >>
    /\ lifecalls' = [lifecalls EXCEPT ![i].pc = "cleanup"]
    /\ UNCHANGED << workers_running, tasks >>
    /\ LifeFrame

\* stop(): the channels are cleaned up and the call returns
StopCleanedUp(i) ==
    /\ lifecalls[i].kind = "stop"
    /\ lifecalls[i].pc = "cleanup"
    /\ lifecalls' = [lifecalls EXCEPT ![i].pc = "done"]
    /\ UNCHANGED << workers_running, tasks, worker_tasks >>
    /\ LifeFrame

\* _alert_worker: the CancelledError is raised at the await (or before the
\* task ever ran) and ends the task
TaskCancelled(t) ==
    /\ tasks[t] = "cancelling"
    /\ tasks' = [tasks EXCEPT ![t] = "done"]
    /\ UNCHANGED << workers_running, worker_tasks, lifecalls >>
    /\ LifeFrame

\* _alert_worker: the loop test finds the flag False and the task returns
TaskLeavesLoop(t) ==
    /\ tasks[t] = "running"
    /\ ~workers_running
    /\ tasks' = [tasks EXCEPT ![t] = "done"]
    /\ UNCHANGED << workers_running, worker_tasks, lifecalls >>
    /\ LifeFrame

NextLife ==
    \/ StartBegins
    \/ StopBegins
    \/ \E i \in 1..Len(lifecalls) : StartCreatesWorkers(i)
    \/ \E i \in 1..Len(lifecalls) : StopGathered(i)
    \/ \E i \in 1..Len(lifecalls) : StopCleanedUp(i)
    \/ \E t \in TaskIds : TaskCancelled(t)
    \/ \E t \in TaskIds : TaskLeavesLoop(t)

SpecLife == Init /\ [][NextLife]_vars

\* the worker loops that go on: not cancelled, and the flag their loop
\* test reads is True
GoingOn == { t \in TaskIds : tasks[t] = "running" /\ workers_running }

Tracked(t) == \E i \in 1..Len(worker_tasks) : worker_tasks[i] = t

\* a start() call is between its guard and the creation of its workers
StartInProgress ==
    \E i \in 1..Len(lifecalls) :
        lifecalls[i].kind = "start" /\ lifecalls[i].pc = "init"

\* this step is the return of a stop() call that passed the guard
StopCompletes ==
    \E i \in 1..Len(lifecalls) :
        /\ lifecalls[i].kind = "stop"
        /\ lifecalls[i].pc = "cleanup"
        /\ lifecalls'[i].pc = "done"

(***************************************************************************)
(* C39.  Under every interleaving of start() and stop() calls: at most     *)
(* alert_workers worker loops go on at any time, every worker loop that    *)
(* goes on is in self.worker_tasks, so that a later stop() cancels it, and *)
(* when a stop() call returns while no start() call is in progress no      *)
(* worker loop goes on.                                                    *)
(***************************************************************************)
C39_LifecycleSafe ==
    /\ [](Cardinality(GoingOn) <= NumWorkers)
    /\ [](\A t \in GoingOn : Tracked(t))
    /\ [][ (StopCompletes /\ ~StartInProgress) => GoingOn' = {} ]_vars

=============================================================================
